---- MODULE Spec2Model ----
(***************************************************************************)
(* A model of junebug/channel.py: the Channel object, its persisted record *)
(* in redis, and the two workers it attaches under a parent service.       *)
(*                                                                         *)
(* Every method of Channel is a call that runs in steps; the steps are the *)
(* statements between two suspension points (yield) of the method, and     *)
(* start, which does not suspend, takes one step per worker it starts.     *)
(* The twisted service calls the methods make (setName, setServiceParent,  *)
(* disownServiceParent, getServiceNamed) are modelled by what               *)
(* twisted.application.service.Service and MultiService do.                *)
(***************************************************************************)
EXTENDS Integers, Sequences, FiniteSets, TLC

\* ---------------------------------------------------------------- bounds
\* Workers ever created (by the channel or handed in by the caller).
MaxWorkers == 4

\* Channel ids, parent services and callers of the model.  The calls of
\* Spec are made on the channels of CallIDs; the other channels stay as
\* they were constructed.
IDs == {"a", "b"}
CallIDs == {"a"}
Services == {"s1", "s2"}
Procs == {1}
ConcurrentProcs == {1, 2}

\* ------------------------------------------------------- python values
\* None where a worker, a parent service or a worker name is expected.
NoWorker == 0
NoService == "None"
NoName == "None"

\* Values of a properties dict, tagged with their python type.
Str(s) == [py |-> "str", s |-> s]
Dict(items) == [py |-> "dict", items |-> items]
PyNone == [py |-> "NoneType"]
Bool(b) == [py |-> "bool", b |-> b]
EmptyDict == [k \in {} |-> PyNone]

Keys == <<"config", "mo_url", "type">>

\* dict.get(key): the value, or None when the key is missing.
Get(d, k) == IF k \in DOMAIN d THEN d[k] ELSE PyNone

\* dict.update(other) on a copy of d.
DictUpdate(d, other) ==
    [k \in DOMAIN d \cup DOMAIN other |->
        IF k \in DOMAIN other THEN other[k] ELSE d[k]]

\* The transport registry of the module.
transports ==
    [telnet |-> "vumi.transports.telnet.TelnetServerTransport",
     xmpp |-> "vumi.transports.xmpp.XMPPTransport"]

\* ------------------------------------------------------------- inputs
ConfigA == Dict([twisted_endpoint |-> Str("tcp:9001")])
ConfigB == Dict([twisted_endpoint |-> Str("tcp:9002")])

TypeInputs == {Str("telnet"), Str("bogus")}
ConfigInputs == {ConfigA, ConfigB, PyNone}
MoUrlInputs == {Str("http://x"), Str("http://y")}

\* The properties a channel is constructed with.
DefaultProperties ==
    [type |-> Str("telnet"), config |-> ConfigA, mo_url |-> Str("http://x")]

InitProperties ==
    {[type |-> t, config |-> ConfigA, mo_url |-> Str("http://x")] :
        t \in TypeInputs}
    \cup {[type |-> Str("telnet"), config |-> ConfigA]}

\* The partial properties update is called with.
UpdateInputs ==
    {[mo_url |-> Str("http://y")], [config |-> ConfigB], [config |-> PyNone],
     [type |-> Str("bogus"), config |-> ConfigB]}

VARIABLES
    properties,          \* id -> Channel._properties
    transport_worker,    \* id -> Channel.transport_worker
    application_worker,  \* id -> Channel.application_worker
    redis_properties,    \* id -> the values under key "properties" (0 or 1)
    redis_channels,      \* the redis set "channels"
    workers,             \* the worker objects created so far
    namedServices,       \* service -> MultiService.namedServices
    services,            \* service -> MultiService.services
    calls                \* caller -> the method call it runs

vars == <<properties, transport_worker, application_worker, redis_properties,
          redis_channels, workers, namedServices, services, calls>>

channelVars == <<properties, transport_worker, application_worker>>
redisVars == <<redis_properties, redis_channels>>
serviceVars == <<workers, namedServices, services>>

\* ------------------------------------------------------ pure functions
\* Channel._application_id
ApplicationId(id) == "application:" \o id

Names == IDs \cup {ApplicationId(i) : i \in IDs}

\* json.dumps of a properties dict: the JSON text, as the key/value members
\* of the object in key order.
RECURSIVE DumpsFrom(_, _)
DumpsFrom(d, i) ==
    IF i > Len(Keys) THEN <<>>
    ELSE IF Keys[i] \in DOMAIN d
         THEN <<[key |-> Keys[i], value |-> d[Keys[i]]]>> \o DumpsFrom(d, i + 1)
         ELSE DumpsFrom(d, i + 1)

Dumps(d) == DumpsFrom(d, 1)

\* json.loads of such a text: the dict of its members.
Loads(text) ==
    [k \in {text[i].key : i \in DOMAIN text} |->
        (CHOOSE m \in {text[i] : i \in DOMAIN text} : m.key = k).value]

\* Channel.status
Status(id) ==
    DictUpdate(properties[id], [id |-> Str(id), status |-> Dict(EmptyDict)])

\* Channel._convert_unicode: a mapping is rebuilt item by item, a value that
\* is neither a string, a mapping nor an iterable is returned as it is.
ConvertUnicode(data) ==
    IF data.py = "dict"
    THEN Dict([k \in DOMAIN data.items |-> data.items[k]])
    ELSE data

\* Channel._transport_config, for a config that is a mapping.
TransportConfig(id) ==
    DictUpdate(ConvertUnicode(properties[id]["config"]).items,
               [transport_name |-> Str(id)])

\* Channel._application_config
ApplicationConfig(id) ==
    [transport_name |-> Str(id), mo_message_url |-> properties[id]["mo_url"]]

\* Channel._transport_cls_name: the class name, or None when it raises.
TransportClsName(id) ==
    LET type == Get(properties[id], "type")
    IN IF type.py = "str" /\ type.s \in DOMAIN transports
       THEN transports[type.s] ELSE "None"

\* Channel._application_cls_name
ApplicationClsName == "junebug.workers.MessageForwardingWorker"

\* ------------------------------------------------------------- calls
NoCall ==
    [name |-> "none", id |-> "", pc |-> "done", result |-> "ok",
     properties |-> EmptyDict, service |-> NoService,
     transport_worker |-> NoWorker, json |-> <<>>, ret |-> EmptyDict,
     channels |-> {}, at |-> "", overlaps |-> FALSE,
     msg0 |-> EmptyDict, msg |-> EmptyDict, fields |-> EmptyDict,
     message0 |-> EmptyDict, message |-> EmptyDict,
     pre |-> [transport_worker |-> NoWorker, application_worker |-> NoWorker,
              parent |-> NoService, running |-> FALSE]]

\* WorkerCreator.create_worker: a worker with no name and no parent.
NewWorker(cls_name, config) ==
    [name |-> NoName, parent |-> NoService, cls |-> cls_name, config |-> config]

\* True when worker w is a child of the service it names as its parent.
Attached(w) ==
    /\ w # NoWorker
    /\ workers[w].parent # NoService
    /\ w \in services[workers[w].parent]

\* What a call records of the channel when it is made.
Pre(id) ==
    [transport_worker |-> transport_worker[id],
     application_worker |-> application_worker[id],
     parent |-> IF transport_worker[id] = NoWorker THEN NoService
                ELSE workers[transport_worker[id]].parent,
     running |-> Attached(transport_worker[id])
                 /\ Attached(application_worker[id])]

\* A caller makes a call when its last call is over: with one caller the
\* calls are serialized.
CanCall(p) == calls[p].pc = "done"

\* The record of a call tells whether it was made while a call of another
\* caller was running.
SetCall(p, c) ==
    calls' = [calls EXCEPT
                ![p] = [c EXCEPT !.overlaps =
                           \E q \in DOMAIN calls \ {p} :
                               calls[q].pc # "done"]]
Goto(p, pc) == calls' = [calls EXCEPT ![p].pc = pc]
Return(p, result, ret) ==
    calls' = [calls EXCEPT ![p].pc = "done", ![p].result = result,
                           ![p].ret = ret]
Raise(p, error) ==
    calls' = [calls EXCEPT ![p].pc = "done", ![p].result = error,
                           ![p].ret = EmptyDict, ![p].at = calls[p].pc]

Init ==
    /\ properties \in [IDs -> InitProperties]
    /\ \A i \in IDs \ CallIDs : properties[i] = DefaultProperties
    /\ transport_worker = [i \in IDs |-> NoWorker]
    /\ application_worker = [i \in IDs |-> NoWorker]
    /\ redis_properties = [i \in IDs |-> {}]
    /\ redis_channels = {}
    /\ workers = <<>>
    /\ namedServices = [s \in Services |-> [n \in Names |-> NoWorker]]
    /\ services = [s \in Services |-> {}]
    /\ calls = [p \in Procs |-> NoCall]

\* ---------------------------------------------- twisted service calls
\* AttachError with an addService that accepts a name the parent has.
AttachErrorNameNotChecked(ws, w, s, name) ==
    IF ws[w].parent # NoService THEN "RuntimeError"
    ELSE IF s = NoService THEN "AttributeError"
    ELSE "ok"

\* Service.setName and Service.setServiceParent on worker w of ws, followed
\* by MultiService.addService: the error raised, or "ok".  setName refuses a
\* worker that has a parent, addService refuses a name the parent has.
AttachError(ws, w, s, name) ==
    IF ws[w].parent # NoService THEN "RuntimeError"
    ELSE IF s = NoService THEN "AttributeError"
    ELSE IF namedServices[s][name] # NoWorker THEN "RuntimeError"
    ELSE "ok"

\* The worker objects after these calls: setServiceParent sets the parent
\* before addService looks at the name.
AttachWorkers(ws, w, s, name) ==
    IF ws[w].parent # NoService THEN ws
    ELSE [ws EXCEPT ![w].name = name, ![w].parent = s]

\* MultiService.addService(w) on service s, for a name s does not have.
AddService(s, w, name) ==
    /\ namedServices' = [namedServices EXCEPT ![s][name] = w]
    /\ services' = [services EXCEPT ![s] = @ \cup {w}]

\* Service.disownServiceParent on worker w, which has a parent:
\* MultiService.removeService and parent = None.
DisownServiceParent(w) ==
    LET s == workers[w].parent
        name == workers[w].name
    IN /\ namedServices' = [namedServices EXCEPT ![s][name] = NoWorker]
       /\ services' = [services EXCEPT ![s] = @ \ {w}]
       /\ workers' = [workers EXCEPT ![w].parent = NoService]

\* --------------------------------------------------------- Channel.start
\* start(service, transport_worker): the caller hands in a transport worker
\* it created from the channel's transport config, or None.
CallStart(p, id, s, override) ==
    /\ CanCall(p)
    /\ Len(workers) + 2 <= MaxWorkers
    /\ workers' =
         IF override
         THEN Append(workers,
                NewWorker(transports["telnet"],
                    IF Get(properties[id], "config").py = "dict"
                    THEN TransportConfig(id)
                    ELSE [transport_name |-> Str(id)]))
         ELSE workers
    /\ SetCall(p, [NoCall EXCEPT !.name = "start", !.id = id,
                      !.pc = "start_transport", !.result = "",
                      !.service = s,
                      !.transport_worker =
                          IF override THEN Len(workers) + 1 ELSE NoWorker,
                      !.pre = Pre(id)])
    /\ UNCHANGED <<channelVars, redisVars, namedServices, services>>

\* CreateTransportError with a class name that is not looked up in the
\* registry.
CreateTransportErrorTypeNotChecked(id) ==
    IF "config" \notin DOMAIN properties[id] THEN "KeyError"
    ELSE IF properties[id]["config"].py # "dict" THEN "TypeError"
    ELSE "ok"

\* Channel._create_transport: the error it raises, or "ok".
CreateTransportError(id) ==
    IF TransportClsName(id) = "None" THEN "InvalidChannelType"
    ELSE IF "config" \notin DOMAIN properties[id] THEN "KeyError"
    ELSE IF properties[id]["config"].py # "dict" THEN "TypeError"
    ELSE "ok"

\* Channel._start_transport
StartTransport(p) ==
    LET c == calls[p]
        id == c.id
        create == c.transport_worker = NoWorker
        createError == IF create THEN CreateTransportError(id) ELSE "ok"
    IN /\ c.pc = "start_transport"
       /\ IF createError # "ok"
          THEN /\ Raise(p, createError)
               /\ UNCHANGED <<channelVars, redisVars, serviceVars>>
          ELSE LET ws == IF create
                         THEN Append(workers,
                                NewWorker(TransportClsName(id),
                                          TransportConfig(id)))
                         ELSE workers
                   w == IF create THEN Len(ws) ELSE c.transport_worker
                   error == AttachError(ws, w, c.service, id)
               IN /\ workers' = AttachWorkers(ws, w, c.service, id)
                  /\ IF error # "ok"
                     THEN /\ Raise(p, error)
                          /\ UNCHANGED <<channelVars, redisVars,
                                         namedServices, services>>
                     ELSE /\ AddService(c.service, w, id)
                          /\ transport_worker' =
                               [transport_worker EXCEPT ![id] = w]
                          /\ Goto(p, "start_application")
                          /\ UNCHANGED <<properties, application_worker,
                                         redisVars>>

\* StartApplication that leaves the handle of the application worker as
\* it was.
StartApplicationHandleNotSet(p) ==
    LET c == calls[p]
        id == c.id
    IN /\ c.pc = "start_application"
       /\ IF "mo_url" \notin DOMAIN properties[id]
          THEN /\ Raise(p, "KeyError")
               /\ UNCHANGED <<channelVars, redisVars, serviceVars>>
          ELSE LET ws == Append(workers,
                           NewWorker(ApplicationClsName,
                                     ApplicationConfig(id)))
                   w == Len(ws)
                   name == ApplicationId(id)
                   error == AttachError(ws, w, c.service, name)
               IN /\ workers' = AttachWorkers(ws, w, c.service, name)
                  /\ IF error # "ok"
                     THEN /\ Raise(p, error)
                          /\ UNCHANGED <<channelVars, redisVars,
                                         namedServices, services>>
                     ELSE /\ AddService(c.service, w, name)
                          /\ Return(p, "ok",
                                    IF c.name = "update" THEN Status(id)
                                    ELSE EmptyDict)
                          /\ UNCHANGED <<channelVars, redisVars>>

\* Channel._start_application; a start that update made returns the status.
StartApplication(p) ==
    LET c == calls[p]
        id == c.id
    IN /\ c.pc = "start_application"
       /\ IF "mo_url" \notin DOMAIN properties[id]
          THEN /\ Raise(p, "KeyError")
               /\ UNCHANGED <<channelVars, redisVars, serviceVars>>
          ELSE LET ws == Append(workers,
                           NewWorker(ApplicationClsName,
                                     ApplicationConfig(id)))
                   w == Len(ws)
                   name == ApplicationId(id)
                   error == AttachError(ws, w, c.service, name)
               IN /\ workers' = AttachWorkers(ws, w, c.service, name)
                  /\ IF error # "ok"
                     THEN /\ Raise(p, error)
                          /\ UNCHANGED <<channelVars, redisVars,
                                         namedServices, services>>
                     ELSE /\ AddService(c.service, w, name)
                          /\ application_worker' =
                               [application_worker EXCEPT ![id] = w]
                          /\ Return(p, "ok",
                                    IF c.name = "update" THEN Status(id)
                                    ELSE EmptyDict)
                          /\ UNCHANGED <<properties, transport_worker,
                                         redisVars>>

\* ---------------------------------------------------------- Channel.stop
CallStop(p, id) ==
    /\ CanCall(p)
    /\ SetCall(p, [NoCall EXCEPT !.name = "stop", !.id = id,
                      !.pc = "stop_application", !.result = "",
                      !.pre = Pre(id)])
    /\ UNCHANGED <<channelVars, redisVars, serviceVars>>

\* StopApplication with the transport worker disowned in place of the
\* application worker.
StopApplicationDisownsTransport(p) ==
    LET c == calls[p]
        w == transport_worker[c.id]
    IN /\ c.pc = "stop_application"
       /\ UNCHANGED <<channelVars, redisVars>>
       /\ IF application_worker[c.id] = NoWorker
          THEN Goto(p, "stop_transport") /\ UNCHANGED serviceVars
          ELSE IF w = NoWorker \/ workers[w].parent = NoService
          THEN Raise(p, "AttributeError") /\ UNCHANGED serviceVars
          ELSE DisownServiceParent(w) /\ Goto(p, "stop_application_done")

\* StopApplication without the test of the handle.
StopApplicationHandleNotTested(p) ==
    LET c == calls[p]
        w == application_worker[c.id]
    IN /\ c.pc = "stop_application"
       /\ UNCHANGED <<channelVars, redisVars>>
       /\ IF w = NoWorker \/ workers[w].parent = NoService
          THEN Raise(p, "AttributeError") /\ UNCHANGED serviceVars
          ELSE DisownServiceParent(w) /\ Goto(p, "stop_application_done")

\* Channel._stop_application up to its yield: the worker leaves its parent.
StopApplication(p) ==
    LET c == calls[p]
        w == application_worker[c.id]
    IN /\ c.pc = "stop_application"
       /\ UNCHANGED <<channelVars, redisVars>>
       /\ IF w = NoWorker
          THEN Goto(p, "stop_transport") /\ UNCHANGED serviceVars
          ELSE IF workers[w].parent = NoService
          THEN Raise(p, "AttributeError") /\ UNCHANGED serviceVars
          ELSE DisownServiceParent(w) /\ Goto(p, "stop_application_done")

\* Channel._stop_application after its yield: the handle is cleared.
StopApplicationDone(p) ==
    LET c == calls[p]
    IN /\ c.pc = "stop_application_done"
       /\ application_worker' = [application_worker EXCEPT ![c.id] = NoWorker]
       /\ Goto(p, "stop_transport")
       /\ UNCHANGED <<properties, transport_worker, redisVars, serviceVars>>

\* Channel._stop_transport up to its yield.
StopTransport(p) ==
    LET c == calls[p]
        w == transport_worker[c.id]
    IN /\ c.pc = "stop_transport"
       /\ UNCHANGED <<channelVars, redisVars>>
       /\ IF w = NoWorker
          THEN /\ UNCHANGED serviceVars
               /\ IF c.name = "update" THEN Goto(p, "start_transport")
                  ELSE Return(p, "ok", EmptyDict)
          ELSE IF workers[w].parent = NoService
          THEN Raise(p, "AttributeError") /\ UNCHANGED serviceVars
          ELSE DisownServiceParent(w) /\ Goto(p, "stop_transport_done")

\* Channel._stop_transport after its yield; update goes on to start.
StopTransportDone(p) ==
    LET c == calls[p]
    IN /\ c.pc = "stop_transport_done"
       /\ transport_worker' = [transport_worker EXCEPT ![c.id] = NoWorker]
       /\ IF c.name = "update" THEN Goto(p, "start_transport")
          ELSE Return(p, "ok", EmptyDict)
       /\ UNCHANGED <<properties, application_worker, redisVars, serviceVars>>

\* Channel._stop_application after its yield, when the deferred of
\* disownServiceParent fails (the stopService of the worker has failed):
\* the worker has left its parent, the error leaves stop and the handle is
\* not cleared.
StopApplicationFails(p) ==
    LET c == calls[p]
    IN /\ c.pc = "stop_application_done"
       /\ Raise(p, "StopServiceError")
       /\ UNCHANGED <<channelVars, redisVars, serviceVars>>

\* Channel._stop_transport after its yield, when the deferred of
\* disownServiceParent fails.
StopTransportFails(p) ==
    LET c == calls[p]
    IN /\ c.pc = "stop_transport_done"
       /\ Raise(p, "StopServiceError")
       /\ UNCHANGED <<channelVars, redisVars, serviceVars>>

\* ---------------------------------------------------------- Channel.save
\* save up to its first yield: the properties are serialized.
CallSave(p, id) ==
    /\ CanCall(p)
    /\ SetCall(p, [NoCall EXCEPT !.name = "save", !.id = id,
                      !.pc = "save_set", !.result = "",
                      !.json = Dumps(properties[id]), !.pre = Pre(id)])
    /\ UNCHANGED <<channelVars, redisVars, serviceVars>>

\* channel_redis.set('properties', properties)
SaveSet(p) ==
    LET c == calls[p]
    IN /\ c.pc = "save_set"
       /\ redis_properties' = [redis_properties EXCEPT ![c.id] = {c.json}]
       /\ Goto(p, "save_sadd")
       /\ UNCHANGED <<channelVars, redis_channels, serviceVars>>

\* SaveSadd with the id not added to the set of channels.
SaveSaddNotAdded(p) ==
    LET c == calls[p]
    IN /\ c.pc = "save_sadd"
       /\ IF c.name = "update" THEN Goto(p, "update_restart")
          ELSE Return(p, "ok", EmptyDict)
       /\ UNCHANGED <<channelVars, redisVars, serviceVars>>

\* redis.sadd('channels', id); update goes on to its test of the config.
SaveSadd(p) ==
    LET c == calls[p]
    IN /\ c.pc = "save_sadd"
       /\ redis_channels' = redis_channels \cup {c.id}
       /\ IF c.name = "update" THEN Goto(p, "update_restart")
          ELSE Return(p, "ok", EmptyDict)
       /\ UNCHANGED <<channelVars, redis_properties, serviceVars>>

\* -------------------------------------------------------- Channel.update
\* CallUpdate with the properties serialized before the merge.
CallUpdateSerializesBeforeMerge(p, id, props) ==
    /\ CanCall(p)
    /\ Get(props, "config").py # "NoneType" => Len(workers) + 2 <= MaxWorkers
    /\ properties' = [properties EXCEPT ![id] = DictUpdate(@, props)]
    /\ SetCall(p, [NoCall EXCEPT !.name = "update", !.id = id,
                      !.pc = "save_set", !.result = "",
                      !.properties = props,
                      !.json = Dumps(properties[id]),
                      !.pre = Pre(id)])
    /\ UNCHANGED <<transport_worker, application_worker, redisVars,
                   serviceVars>>

\* update up to the first yield of save: the properties are merged and
\* serialized.
CallUpdate(p, id, props) ==
    /\ CanCall(p)
    /\ Get(props, "config").py # "NoneType" => Len(workers) + 2 <= MaxWorkers
    /\ properties' = [properties EXCEPT ![id] = DictUpdate(@, props)]
    /\ SetCall(p, [NoCall EXCEPT !.name = "update", !.id = id,
                      !.pc = "save_set", !.result = "",
                      !.properties = props,
                      !.json = Dumps(DictUpdate(properties[id], props)),
                      !.pre = Pre(id)])
    /\ UNCHANGED <<transport_worker, application_worker, redisVars,
                   serviceVars>>

\* UpdateRestart with a restart whenever the given properties have the key
\* config.
UpdateRestartOnConfigKey(p) ==
    LET c == calls[p]
        w == transport_worker[c.id]
    IN /\ c.pc = "update_restart"
       /\ UNCHANGED <<channelVars, redisVars, serviceVars>>
       /\ IF "config" \notin DOMAIN c.properties
          THEN Return(p, "ok", Status(c.id))
          ELSE IF w = NoWorker
          THEN Raise(p, "AttributeError")
          ELSE calls' = [calls EXCEPT ![p].pc = "stop_application",
                                      ![p].service = workers[w].parent]

\* UpdateRestart with the parent read after the stop, when the worker has
\* none.
UpdateRestartParentAfterStop(p) ==
    LET c == calls[p]
        w == transport_worker[c.id]
    IN /\ c.pc = "update_restart"
       /\ UNCHANGED <<channelVars, redisVars, serviceVars>>
       /\ IF Get(c.properties, "config").py = "NoneType"
          THEN Return(p, "ok", Status(c.id))
          ELSE IF w = NoWorker
          THEN Raise(p, "AttributeError")
          ELSE calls' = [calls EXCEPT ![p].pc = "stop_application",
                                      ![p].service = NoService]

\* update after save: restart when the given properties have a config.
UpdateRestart(p) ==
    LET c == calls[p]
        w == transport_worker[c.id]
    IN /\ c.pc = "update_restart"
       /\ UNCHANGED <<channelVars, redisVars, serviceVars>>
       /\ IF Get(c.properties, "config").py = "NoneType"
          THEN Return(p, "ok", Status(c.id))
          ELSE IF w = NoWorker
          THEN Raise(p, "AttributeError")
          ELSE calls' = [calls EXCEPT ![p].pc = "stop_application",
                                      ![p].service = workers[w].parent]

\* -------------------------------------------------------- Channel.delete
CallDelete(p, id) ==
    /\ CanCall(p)
    /\ SetCall(p, [NoCall EXCEPT !.name = "delete", !.id = id,
                      !.pc = "delete", !.result = "", !.pre = Pre(id)])
    /\ UNCHANGED <<channelVars, redisVars, serviceVars>>

\* Delete that also takes the id out of the set of channels.
DeleteRemovesFromChannels(p) ==
    LET c == calls[p]
    IN /\ c.pc = "delete"
       /\ redis_properties' = [redis_properties EXCEPT ![c.id] = {}]
       /\ redis_channels' = redis_channels \ {c.id}
       /\ Return(p, "ok", EmptyDict)
       /\ UNCHANGED <<channelVars, serviceVars>>

\* Delete with the delete sent to the manager of all channels.
DeleteAllRecords(p) ==
    LET c == calls[p]
    IN /\ c.pc = "delete"
       /\ redis_properties' = [i \in IDs |-> {}]
       /\ Return(p, "ok", EmptyDict)
       /\ UNCHANGED <<channelVars, redis_channels, serviceVars>>

\* channel_redis.delete('properties')
Delete(p) ==
    LET c == calls[p]
    IN /\ c.pc = "delete"
       /\ redis_properties' = [redis_properties EXCEPT ![c.id] = {}]
       /\ Return(p, "ok", EmptyDict)
       /\ UNCHANGED <<channelVars, redis_channels, serviceVars>>

\* ------------------------------------------------------- Channel.from_id
CallFromId(p, id, parent) ==
    /\ CanCall(p)
    /\ SetCall(p, [NoCall EXCEPT !.name = "from_id", !.id = id,
                      !.pc = "from_id", !.result = "", !.service = parent,
                      !.pre = Pre(id)])
    /\ UNCHANGED <<channelVars, redisVars, serviceVars>>

\* Channel._restore: the error getServiceNamed raises, or "ok".
RestoreError(id, s) ==
    IF namedServices[s][id] = NoWorker THEN "KeyError"
    ELSE IF namedServices[s][ApplicationId(id)] = NoWorker THEN "KeyError"
    ELSE "ok"

\* FromId with a missing record taken for empty properties.
FromIdRecordNotTested(p) ==
    LET c == calls[p]
        id == c.id
    IN /\ c.pc = "from_id"
       /\ UNCHANGED <<redisVars, serviceVars>>
       /\ IF RestoreError(id, c.service) # "ok"
          THEN Raise(p, RestoreError(id, c.service)) /\ UNCHANGED channelVars
          ELSE /\ properties' =
                    [properties EXCEPT
                       ![id] = IF redis_properties[id] = {} THEN EmptyDict
                               ELSE Loads(CHOOSE t \in redis_properties[id] :
                                              TRUE)]
               /\ transport_worker' =
                    [transport_worker EXCEPT
                       ![id] = namedServices[c.service][id]]
               /\ application_worker' =
                    [application_worker EXCEPT
                       ![id] = namedServices[c.service][ApplicationId(id)]]
               /\ Return(p, "ok", EmptyDict)

\* FromId with the application worker looked up under the channel id.
FromIdApplicationNamedId(p) ==
    LET c == calls[p]
        id == c.id
    IN /\ c.pc = "from_id"
       /\ UNCHANGED <<redisVars, serviceVars>>
       /\ IF redis_properties[id] = {}
          THEN Raise(p, "ChannelNotFound") /\ UNCHANGED channelVars
          ELSE IF RestoreError(id, c.service) # "ok"
          THEN Raise(p, RestoreError(id, c.service)) /\ UNCHANGED channelVars
          ELSE /\ properties' =
                    [properties EXCEPT
                       ![id] = Loads(CHOOSE t \in redis_properties[id] : TRUE)]
               /\ transport_worker' =
                    [transport_worker EXCEPT
                       ![id] = namedServices[c.service][id]]
               /\ application_worker' =
                    [application_worker EXCEPT
                       ![id] = namedServices[c.service][id]]
               /\ Return(p, "ok", EmptyDict)

\* from_id after channel_redis.get: the channel it returns takes the place
\* of the channel object of this id.
FromId(p) ==
    LET c == calls[p]
        id == c.id
    IN /\ c.pc = "from_id"
       /\ UNCHANGED <<redisVars, serviceVars>>
       /\ IF redis_properties[id] = {}
          THEN Raise(p, "ChannelNotFound") /\ UNCHANGED channelVars
          ELSE IF RestoreError(id, c.service) # "ok"
          THEN Raise(p, RestoreError(id, c.service)) /\ UNCHANGED channelVars
          ELSE /\ properties' =
                    [properties EXCEPT
                       ![id] = Loads(CHOOSE t \in redis_properties[id] : TRUE)]
               /\ transport_worker' =
                    [transport_worker EXCEPT
                       ![id] = namedServices[c.service][id]]
               /\ application_worker' =
                    [application_worker EXCEPT
                       ![id] = namedServices[c.service][ApplicationId(id)]]
               /\ Return(p, "ok", EmptyDict)

\* ------------------------------------------------------- Channel.get_all
CallGetAll(p) ==
    /\ CanCall(p)
    /\ SetCall(p, [NoCall EXCEPT !.name = "get_all", !.pc = "get_all",
                      !.result = ""])
    /\ UNCHANGED <<channelVars, redisVars, serviceVars>>

\* redis.smembers('channels')
GetAll(p) ==
    LET c == calls[p]
    IN /\ c.pc = "get_all"
       /\ calls' = [calls EXCEPT ![p].pc = "done", ![p].result = "ok",
                                 ![p].channels = redis_channels]
       /\ UNCHANGED <<channelVars, redisVars, serviceVars>>

\* -------------------------------------------------- message translation
\* The external messages send_message is given: any of to, from, content
\* and channel_data may be missing, and channel_data may carry
\* continue_session, session_event and data of the transport.
ChannelDataKeys == {"continue_session", "session_event", "voice"}
ContinueSessionInputs == {PyNone, Bool(TRUE), Bool(FALSE)}
SessionEventInputs == {PyNone, Str("resume")}

ChannelDataInputs ==
    {[k \in ks |-> CASE k = "continue_session" -> cs
                     [] k = "session_event" -> se
                     [] OTHER -> Dict(EmptyDict)] :
        ks \in SUBSET ChannelDataKeys,
        cs \in ContinueSessionInputs, se \in SessionEventInputs}

MessageKeys == {"to", "from", "content", "channel_data"}

MessageInputs ==
    {[k \in ks |-> CASE k = "to" -> Str("+1234")
                     [] k = "from" -> Str("+5432")
                     [] k = "content" -> Str("hello")
                     [] OTHER -> Dict(cd)] :
        ks \in SUBSET MessageKeys, cd \in ChannelDataInputs}

\* The keys message_from_api pops from channel_data, and api_from_message
\* writes to it: those whose value is not None.
SessionKeys(d) ==
    {k \in {"continue_session", "session_event"} : Get(d, k) # PyNone}

\* message_from_api with the session fields popped and lost.
MessageFromApiSessionDropped(id, msg) ==
    IF "from" \notin DOMAIN msg \/ "content" \notin DOMAIN msg
    THEN [error |-> "KeyError", msg |-> msg]
    ELSE LET channel_data == IF "channel_data" \in DOMAIN msg
                             THEN msg["channel_data"].items ELSE EmptyDict
             popped == SessionKeys(channel_data)
             rest == [k \in DOMAIN channel_data \ popped |->
                         channel_data[k]]
             ret == [k \in {"to_addr", "from_addr", "content",
                            "transport_name", "helper_metadata"} |->
                       CASE k = "to_addr" -> Get(msg, "to")
                         [] k = "from_addr" -> msg["from"]
                         [] k = "content" -> msg["content"]
                         [] k = "transport_name" -> Str(id)
                         [] OTHER -> Dict(rest)]
         IN [error |-> "ok", ret |-> ret,
             msg |-> IF "channel_data" \in DOMAIN msg
                     THEN [msg EXCEPT !["channel_data"] = Dict(rest)]
                     ELSE msg]

\* Channel.message_from_api(id, msg): the error it raises or the dict it
\* returns, and the caller's msg when it is over. channel_data is the
\* dict of the caller (a new one when msg has none): the pops change it,
\* and helper_metadata is that same dict.
MessageFromApi(id, msg) ==
    IF "from" \notin DOMAIN msg \/ "content" \notin DOMAIN msg
    THEN [error |-> "KeyError", msg |-> msg]
    ELSE LET channel_data == IF "channel_data" \in DOMAIN msg
                             THEN msg["channel_data"].items ELSE EmptyDict
             popped == SessionKeys(channel_data)
             rest == [k \in DOMAIN channel_data \ popped |->
                         channel_data[k]]
             ret == [k \in {"to_addr", "from_addr", "content",
                            "transport_name", "helper_metadata"}
                            \cup popped |->
                       CASE k = "to_addr" -> Get(msg, "to")
                         [] k = "from_addr" -> msg["from"]
                         [] k = "content" -> msg["content"]
                         [] k = "transport_name" -> Str(id)
                         [] k = "helper_metadata" -> Dict(rest)
                         [] OTHER -> channel_data[k]]
         IN [error |-> "ok", ret |-> ret,
             msg |-> IF "channel_data" \in DOMAIN msg
                     THEN [msg EXCEPT !["channel_data"] = Dict(rest)]
                     ELSE msg]

\* TransportUserMessage.send(**fields): the message has the fields it is
\* given, a message id, a timestamp, no in_reply_to, and a session_event
\* of None when it is given none.
TransportUserMessageSend(fields) ==
    [k \in DOMAIN fields
            \cup {"message_id", "timestamp", "in_reply_to",
                  "session_event"} |->
        IF k \in DOMAIN fields THEN fields[k]
        ELSE CASE k = "message_id" -> Str("message-id")
               [] k = "timestamp" -> Str("timestamp")
               [] OTHER -> PyNone]

\* Channel.api_from_message(msg): the dict it returns and msg when it is
\* over. channel_data is the helper_metadata dict of msg: the session
\* fields are written to it.
ApiFromMessage(msg) ==
    LET helper_metadata == msg["helper_metadata"].items
        channel_data ==
            [k \in DOMAIN helper_metadata \cup SessionKeys(msg) |->
                IF k \in SessionKeys(msg) THEN msg[k]
                ELSE helper_metadata[k]]
    IN [ret |-> [to |-> msg["to_addr"], from |-> msg["from_addr"],
                 message_id |-> msg["message_id"],
                 channel_id |-> msg["transport_name"],
                 timestamp |-> msg["timestamp"],
                 reply_to |-> msg["in_reply_to"],
                 content |-> msg["content"],
                 channel_data |-> Dict(channel_data)],
        msg |-> [msg EXCEPT !["helper_metadata"] = Dict(channel_data)]]

\* ---------------------------------------------------- Channel.send_message
CallSendMessage(p, id, msg) ==
    /\ CanCall(p)
    /\ SetCall(p, [NoCall EXCEPT !.name = "send_message", !.id = id,
                      !.pc = "message_from_api", !.result = "",
                      !.msg0 = msg, !.msg = msg])
    /\ UNCHANGED <<channelVars, redisVars, serviceVars>>

\* TransportUserMessage.send(**cls.message_from_api(id, msg)), up to the
\* yield of message_sender.send_message.
SendMessageFromApi(p) ==
    LET c == calls[p]
        r == MessageFromApi(c.id, c.msg)
    IN /\ c.pc = "message_from_api"
       /\ IF r.error # "ok"
          THEN Raise(p, r.error)
          ELSE calls' = [calls EXCEPT
                            ![p].pc = "api_from_message",
                            ![p].msg = r.msg,
                            ![p].fields = r.ret,
                            ![p].message0 = TransportUserMessageSend(r.ret),
                            ![p].message = TransportUserMessageSend(r.ret)]
       /\ UNCHANGED <<channelVars, redisVars, serviceVars>>

\* The sender gives back the message it was given, and api_from_message
\* translates it. The helper_metadata of the message is the channel_data
\* dict of the caller's msg when msg has one.
SendMessageApiFromMessage(p) ==
    LET c == calls[p]
        r == ApiFromMessage(c.message)
    IN /\ c.pc = "api_from_message"
       /\ calls' = [calls EXCEPT
                       ![p].pc = "done",
                       ![p].result = "ok",
                       ![p].ret = r.ret,
                       ![p].message = r.msg,
                       ![p].msg =
                           IF "channel_data" \in DOMAIN c.msg
                           THEN [c.msg EXCEPT !["channel_data"] =
                                    r.msg["helper_metadata"]]
                           ELSE c.msg]
       /\ UNCHANGED <<channelVars, redisVars, serviceVars>>

\* ------------------------------------------------------ specification
Next ==
    \E p \in Procs :
        \/ \E id \in CallIDs, s \in Services, override \in BOOLEAN :
               CallStart(p, id, s, override)
        \/ StartTransport(p)
        \/ StartApplication(p)
        \/ \E id \in CallIDs : CallStop(p, id)
        \/ StopApplication(p)
        \/ StopApplicationDone(p)
        \/ StopTransport(p)
        \/ StopTransportDone(p)
        \/ \E id \in CallIDs : CallSave(p, id)
        \/ SaveSet(p)
        \/ SaveSadd(p)
        \/ \E id \in CallIDs, props \in UpdateInputs : CallUpdate(p, id, props)
        \/ UpdateRestart(p)
        \/ \E id \in CallIDs : CallDelete(p, id)
        \/ Delete(p)
        \/ \E id \in CallIDs, s \in Services : CallFromId(p, id, s)
        \/ FromId(p)
        \/ CallGetAll(p)
        \/ GetAll(p)

Spec == Init /\ [][Next]_vars

\* Two channels under one parent service: every method is called on both
\* channels, start with no transport worker handed in, update with a new
\* mo_url.
InitChannels ==
    /\ Init
    /\ properties = [i \in IDs |-> DefaultProperties]

NextChannels ==
    \E p \in Procs :
        \/ \E id \in IDs : CallStart(p, id, "s1", FALSE)
        \/ StartTransport(p)
        \/ StartApplication(p)
        \/ \E id \in IDs : CallStop(p, id)
        \/ StopApplication(p)
        \/ StopApplicationDone(p)
        \/ StopTransport(p)
        \/ StopTransportDone(p)
        \/ \E id \in IDs : CallSave(p, id)
        \/ SaveSet(p)
        \/ SaveSadd(p)
        \/ \E id \in IDs : CallUpdate(p, id, [mo_url |-> Str("http://y")])
        \/ UpdateRestart(p)
        \/ \E id \in IDs : CallDelete(p, id)
        \/ Delete(p)
        \/ \E id \in IDs : CallFromId(p, id, "s1")
        \/ FromId(p)
        \/ CallGetAll(p)
        \/ GetAll(p)

SpecChannels == InitChannels /\ [][NextChannels]_vars

\* One channel under one parent service, where the stopService of a worker
\* that is disowned may fail.
NextFail ==
    \E p \in Procs :
        \/ \E id \in CallIDs : CallStart(p, id, "s1", FALSE)
        \/ StartTransport(p)
        \/ StartApplication(p)
        \/ \E id \in CallIDs : CallStop(p, id)
        \/ StopApplication(p)
        \/ StopApplicationDone(p)
        \/ StopApplicationFails(p)
        \/ StopTransport(p)
        \/ StopTransportDone(p)
        \/ StopTransportFails(p)
        \/ \E id \in CallIDs : CallSave(p, id)
        \/ SaveSet(p)
        \/ SaveSadd(p)
        \/ \E id \in CallIDs, props \in UpdateInputs : CallUpdate(p, id, props)
        \/ UpdateRestart(p)
        \/ \E id \in CallIDs : CallDelete(p, id)
        \/ Delete(p)
        \/ \E id \in CallIDs : CallFromId(p, id, "s1")
        \/ FromId(p)

SpecFail == Init /\ [][NextFail]_vars

\* Two callers of the lifecycle methods of one channel. A call runs from a
\* yield to the next without interruption: at the pcs of SynchronousPcs a
\* caller is between two yields (start has none), at the others it is
\* suspended at a yield, and the other caller may act.
SynchronousPcs ==
    {"start_transport", "start_application", "stop_application",
     "stop_transport"}

MayRun(p) ==
    \A q \in ConcurrentProcs \ {p} : calls[q].pc \notin SynchronousPcs

InitConcurrent ==
    /\ properties = [i \in IDs |-> DefaultProperties]
    /\ transport_worker = [i \in IDs |-> NoWorker]
    /\ application_worker = [i \in IDs |-> NoWorker]
    /\ redis_properties = [i \in IDs |-> {}]
    /\ redis_channels = {}
    /\ workers = <<>>
    /\ namedServices = [s \in Services |-> [n \in Names |-> NoWorker]]
    /\ services = [s \in Services |-> {}]
    /\ calls = [p \in ConcurrentProcs |-> NoCall]

NextConcurrent ==
    \E p \in ConcurrentProcs :
        \/ MayRun(p) /\ \E id \in CallIDs : CallStart(p, id, "s1", FALSE)
        \/ MayRun(p) /\ StartTransport(p)
        \/ MayRun(p) /\ StartApplication(p)
        \/ MayRun(p) /\ \E id \in CallIDs : CallStop(p, id)
        \/ MayRun(p) /\ StopApplication(p)
        \/ MayRun(p) /\ StopApplicationDone(p)
        \/ MayRun(p) /\ StopTransport(p)
        \/ MayRun(p) /\ StopTransportDone(p)
        \/ MayRun(p) /\ \E id \in CallIDs :
                            CallUpdate(p, id, [config |-> ConfigB])
        \/ MayRun(p) /\ SaveSet(p)
        \/ MayRun(p) /\ SaveSadd(p)
        \/ MayRun(p) /\ UpdateRestart(p)

SpecConcurrent == InitConcurrent /\ [][NextConcurrent]_vars

\* The message translation of send_message, on every message of
\* MessageInputs.
NextMessage ==
    \E p \in Procs :
        \/ \E id \in IDs, msg \in MessageInputs : CallSendMessage(p, id, msg)
        \/ SendMessageFromApi(p)
        \/ SendMessageApiFromMessage(p)

SpecMessage == InitChannels /\ [][NextMessage]_vars

\* The types of the handles and the bounds, under the specifications with
\* one caller.
TypeOK ==
    /\ \A i \in IDs : transport_worker[i] \in 0..Len(workers)
    /\ \A i \in IDs : application_worker[i] \in 0..Len(workers)
    /\ Len(workers) <= MaxWorkers
    /\ redis_channels \subseteq IDs

\* ------------------------------------------------------------- claims
\* A call of one of the given methods that has returned without an error.
Completed(c, names) == c.pc = "done" /\ c.result = "ok" /\ c.name \in names

\* The properties persisted for a channel that has a record.
Persisted(id) == Loads(CHOOSE t \in redis_properties[id] : TRUE)

\* The transport config and the mo_message_url the persisted properties ask
\* for.
PersistedTransportConfig(id) ==
    DictUpdate(Persisted(id)["config"].items, [transport_name |-> Str(id)])

\* C1: after a save, start, stop or update of a channel has completed, the
\* config of its live transport worker is the persisted config merged with
\* the transport name, and the mo_message_url of its live application
\* worker is the persisted mo_url.
C1_LiveConfigAgreesWithPersisted ==
    \A p \in Procs :
        LET c == calls[p]
            id == c.id
            tw == transport_worker[id]
            aw == application_worker[id]
        IN (Completed(c, {"save", "start", "stop", "update"})
            /\ redis_properties[id] # {})
           => /\ tw # NoWorker =>
                   /\ Get(Persisted(id), "config").py = "dict"
                   /\ workers[tw].config = PersistedTransportConfig(id)
              /\ aw # NoWorker =>
                   workers[aw].config["mo_message_url"]
                       = Get(Persisted(id), "mo_url")

\* The workers named n that are children of service s.
ChildrenNamed(s, n) == {w \in services[s] : workers[w].name = n}

\* C2: a parent service never has two children named id, nor two children
\* named "application:" + id.
C2_AtMostOneWorkerPerName ==
    \A s \in Services, n \in Names : Cardinality(ChildrenNamed(s, n)) <= 1

\* A start or a restart was refused because the parent already had a child
\* of that name, and the child is still there.
C2_Witness ==
    \E p \in Procs :
        /\ calls[p].pc = "done"
        /\ calls[p].name = "start"
        /\ calls[p].pre.running
        /\ calls[p].result = "RuntimeError"
        /\ \E s \in Services : Cardinality(ChildrenNamed(s, calls[p].id)) = 1

\* C3: when a start on a running channel is done, it has succeeded, the
\* workers the channel had are detached, and the handles are a new pair,
\* the only children of these names under the parent.
C3_StartOnRunningRestarts ==
    \A p \in Procs :
        LET c == calls[p]
            id == c.id
            tw == transport_worker[id]
            aw == application_worker[id]
        IN (c.pc = "done" /\ c.name = "start" /\ c.pre.running)
           => /\ c.result = "ok"
              /\ ~Attached(c.pre.transport_worker)
              /\ ~Attached(c.pre.application_worker)
              /\ tw \notin {NoWorker, c.pre.transport_worker}
              /\ aw \notin {NoWorker, c.pre.application_worker}
              /\ ChildrenNamed(c.service, id) = {tw}
              /\ ChildrenNamed(c.service, ApplicationId(id)) = {aw}

\* An update of a running channel that has to restart it: the properties
\* it was given have a config that is not None.
Restarts(c) == Get(c.properties, "config").py # "NoneType"

\* The record of the channel holds the properties of the channel object.
PropertiesPersisted(id) == redis_properties[id] = {Dumps(properties[id])}

\* The status an update returned has the values the update was given.
StatusHasNewValues(c) ==
    /\ c.ret = Status(c.id)
    /\ \A k \in DOMAIN c.properties :
           k \in DOMAIN c.ret /\ c.ret[k] = c.properties[k]

\* Both handles of the channel are workers created since the call was made,
\* attached under a parent.
NewPair(c) ==
    /\ transport_worker[c.id]
           \notin {NoWorker, c.pre.transport_worker, c.pre.application_worker}
    /\ application_worker[c.id]
           \notin {NoWorker, c.pre.transport_worker, c.pre.application_worker}
    /\ Attached(transport_worker[c.id])
    /\ Attached(application_worker[c.id])

\* Both handles of the channel are the workers it had when the call was
\* made, still attached.
SamePair(c) ==
    /\ transport_worker[c.id] = c.pre.transport_worker
    /\ application_worker[c.id] = c.pre.application_worker
    /\ Attached(transport_worker[c.id])
    /\ Attached(application_worker[c.id])

C4_WhenDone(c) ==
    /\ PropertiesPersisted(c.id)
    /\ ~Restarts(c) => c.result = "ok" /\ SamePair(c)
    /\ Restarts(c) => /\ ~Attached(c.pre.transport_worker)
                      /\ ~Attached(c.pre.application_worker)
    /\ (Restarts(c) /\ c.result = "ok") => NewPair(c)
    /\ c.result = "ok" => StatusHasNewValues(c)

StartsInvalidType(p) ==
    /\ calls[p].pc = "start_transport"
    /\ calls'[p] # calls[p]
    /\ TransportClsName(calls[p].id) = "None"

\* start has failed with InvalidChannelType without creating or attaching
\* a worker or changing a handle.
FailsInvalidType(p) ==
    /\ calls'[p].pc = "done"
    /\ calls'[p].result = "InvalidChannelType"
    /\ UNCHANGED <<serviceVars, channelVars>>

\* C6 as stated: a start of a channel whose type is not in the registry
\* fails with InvalidChannelType, creates and attaches no worker and leaves
\* the handles, whether or not a transport worker is handed in.
C6_InvalidTypeFails ==
    [][\A p \in Procs : StartsInvalidType(p) => FailsInvalidType(p)]_vars

\* C6 as amended: a start with no transport worker handed in, of a channel
\* whose type is not in the registry, fails with InvalidChannelType, creates
\* and attaches no worker and leaves the handles.
C6_InvalidTypeFailsWithoutOverride ==
    [][\A p \in Procs :
         (StartsInvalidType(p) /\ calls[p].transport_worker = NoWorker)
         => FailsInvalidType(p)]_vars

\* A start of a running channel, with no transport worker handed in, has
\* failed with InvalidChannelType and the channel has the workers it had.
C6_Witness ==
    \E p \in Procs :
        /\ calls[p].pc = "done"
        /\ calls[p].name = "start"
        /\ calls[p].transport_worker = NoWorker
        /\ calls[p].result = "InvalidChannelType"
        /\ calls[p].pre.running
        /\ SamePair(calls[p])

\* C7: while a running channel is stopped, by stop or by update, its
\* transport worker is never detached while its application worker is still
\* attached, and when stop is done it has succeeded and both handles are
\* None.
C7_ApplicationStopsFirst ==
    \A p \in Procs :
        LET c == calls[p]
        IN /\ (c.name \in {"stop", "update"} /\ c.pre.running)
              => ~(~Attached(c.pre.transport_worker)
                   /\ Attached(c.pre.application_worker))
           /\ (c.name = "stop" /\ c.pre.running /\ c.pc = "done")
              => /\ c.result = "ok"
                 /\ transport_worker[c.id] = NoWorker
                 /\ application_worker[c.id] = NoWorker
                 /\ ~Attached(c.pre.transport_worker)
                 /\ ~Attached(c.pre.application_worker)

\* A stop of a running channel has detached the application worker and not
\* yet the transport worker.
C7_Witness ==
    \E p \in Procs :
        /\ calls[p].name = "stop"
        /\ calls[p].pre.running
        /\ calls[p].pc = "stop_transport"
        /\ ~Attached(calls[p].pre.application_worker)
        /\ Attached(calls[p].pre.transport_worker)

\* A stop of a channel that had no handle when stop was called.
StopsStopped(c) ==
    /\ c.name = "stop"
    /\ c.pre.transport_worker = NoWorker
    /\ c.pre.application_worker = NoWorker

\* A stop of a channel that had one of its two handles when stop was
\* called.
StopsHalfStarted(c) ==
    /\ c.name = "stop"
    /\ (c.pre.transport_worker = NoWorker) # (c.pre.application_worker = NoWorker)

C9_LoadOfSavedSucceeds ==
    \A p \in Procs :
        LET c == calls[p]
        IN (c.pc = "done" /\ c.name = "from_id"
            /\ redis_properties[c.id] # {})
           => /\ c.result = "ok"
              /\ properties[c.id] = Persisted(c.id)

\* C10: a load of a channel that has no persisted record fails with
\* ChannelNotFound, and no step of it changes the store, the parent
\* services or the channel object.
C10_LoadOfUnsavedFails ==
    /\ [](\A p \in Procs :
            (calls[p].pc = "done" /\ calls[p].name = "from_id"
             /\ redis_properties[calls[p].id] = {})
            => calls[p].result = "ChannelNotFound")
    /\ [][\A p \in Procs :
            (calls[p].pc # "done" /\ calls[p].name = "from_id"
             /\ redis_properties[calls[p].id] = {})
            => UNCHANGED <<redisVars, serviceVars, channelVars>>]_vars

\* A load of a channel that was saved and deleted has failed with
\* ChannelNotFound while its workers are children of the parent.
C10_Witness ==
    \E p \in Procs :
        /\ calls[p].pc = "done"
        /\ calls[p].name = "from_id"
        /\ calls[p].result = "ChannelNotFound"
        /\ calls[p].id \in redis_channels
        /\ RestoreError(calls[p].id, calls[p].service) = "ok"

\* What from_id(id, s) gives in the current state: its result and, when it
\* succeeds, the properties and the handles of the channel it returns.
LoadOutcome(id, s) ==
    IF redis_properties[id] = {}
    THEN [result |-> "ChannelNotFound"]
    ELSE IF RestoreError(id, s) # "ok"
    THEN [result |-> RestoreError(id, s)]
    ELSE [result |-> "ok",
          properties |-> Persisted(id),
          transport_worker |-> namedServices[s][id],
          application_worker |-> namedServices[s][ApplicationId(id)]]

\* The step of from_id that ends the call gives the outcome LoadOutcome
\* tells.
FromIdGivesLoadOutcome(p) ==
    LET c == calls[p]
        o == LoadOutcome(c.id, c.service)
    IN (c.pc = "from_id" /\ calls'[p].pc = "done")
       => /\ calls'[p].result = o.result
          /\ o.result = "ok" =>
                /\ properties'[c.id] = o.properties
                /\ transport_worker'[c.id] = o.transport_worker
                /\ application_worker'[c.id] = o.application_worker

\* C11: when a delete of channel A is done, A has no record and a load of
\* A gives ChannelNotFound under every parent; no step of the delete
\* changes, for another channel B, its record, its handles or what a load
\* of B gives.
C11_DeleteLeavesOtherChannels ==
    /\ [](\A p \in Procs :
            (calls[p].pc = "done" /\ calls[p].name = "delete")
            => /\ redis_properties[calls[p].id] = {}
               /\ \A s \in Services :
                     LoadOutcome(calls[p].id, s).result = "ChannelNotFound")
    /\ [][\A p \in Procs :
            /\ FromIdGivesLoadOutcome(p)
            /\ (calls[p].pc # "done" /\ calls[p].name = "delete")
               => \A B \in IDs \ {calls[p].id} :
                    /\ redis_properties'[B] = redis_properties[B]
                    /\ transport_worker'[B] = transport_worker[B]
                    /\ application_worker'[B] = application_worker[B]
                    /\ \A s \in Services :
                          LoadOutcome(B, s)' = LoadOutcome(B, s)]_vars

\* A saved channel was deleted while another channel is saved and running,
\* and a load of the other channel succeeds.
C11_Witness ==
    \E p \in Procs :
        /\ calls[p].pc = "done"
        /\ calls[p].name = "delete"
        /\ calls[p].id \in redis_channels
        /\ \E B \in IDs \ {calls[p].id} :
              /\ redis_properties[B] # {}
              /\ Attached(transport_worker[B])
              /\ Attached(application_worker[B])
              /\ LoadOutcome(B, "s1").result = "ok"

\* get(k) on the channel_data of an external message.
ChannelDataGet(msg, k) ==
    IF "channel_data" \in DOMAIN msg THEN Get(msg["channel_data"].items, k)
    ELSE PyNone

\* True when the channel_data of an external message has key k.
ChannelDataHas(msg, k) ==
    /\ "channel_data" \in DOMAIN msg
    /\ k \in DOMAIN msg["channel_data"].items

C13_MissingFieldIsInvalidMessage ==
    \A p \in Procs :
        LET c == calls[p]
            m == c.msg0
        IN (c.name = "send_message" /\ c.pc # "message_from_api")
           => /\ ("from" \notin DOMAIN m \/ "content" \notin DOMAIN m)
                   => c.result = "InvalidMessage"
              /\ ("from" \in DOMAIN m /\ "content" \in DOMAIN m
                  /\ "to" \notin DOMAIN m)
                   => /\ c.result \in {"", "ok"}
                      /\ c.fields["to_addr"] = PyNone

\* C18: when message_from_api is over the caller's message is as it was
\* given, and message_from_api on it gives the same dict again; when
\* api_from_message is over the internal message is as it was given, and
\* api_from_message on it gives the same dict again.
C18_TranslatorsArePure ==
    \A p \in Procs :
        LET c == calls[p]
        IN c.name = "send_message"
           => /\ c.pc = "api_from_message" =>
                   /\ c.msg = c.msg0
                   /\ MessageFromApi(c.id, c.msg).ret = c.fields
              /\ (c.pc = "done" /\ c.result = "ok") =>
                   /\ c.message = c.message0
                   /\ ApiFromMessage(c.message).ret = c.ret

\* C14: no step of a load changes the workers or the children of any
\* service; a load of a saved channel whose two workers are children of the
\* parent succeeds, and when a load has succeeded the handles of the
\* channel are the children of the parent named id and "application:" +
\* id.
C14_LoadAttachesNoWorker ==
    /\ [][\A p \in Procs :
            calls[p].pc = "from_id" => UNCHANGED serviceVars]_vars
    /\ [](\A p \in Procs :
            LET c == calls[p]
                id == c.id
            IN (c.pc = "done" /\ c.name = "from_id")
               => /\ (/\ redis_properties[id] # {}
                       /\ ChildrenNamed(c.service, id) # {}
                       /\ ChildrenNamed(c.service, ApplicationId(id)) # {})
                      => c.result = "ok"
                  /\ c.result = "ok"
                      => /\ ChildrenNamed(c.service, id)
                               = {transport_worker[id]}
                         /\ ChildrenNamed(c.service, ApplicationId(id))
                               = {application_worker[id]})

\* A load under a parent has succeeded on a channel whose handles were the
\* workers it has under another parent: the handles are now the workers
\* under the parent of the load, and the other workers are still attached.
C14_Witness ==
    \E p \in Procs :
        LET c == calls[p]
        IN /\ c.pc = "done"
           /\ c.name = "from_id"
           /\ c.result = "ok"
           /\ c.pre.running
           /\ c.pre.transport_worker # transport_worker[c.id]
           /\ c.pre.application_worker # application_worker[c.id]
           /\ Attached(c.pre.transport_worker)
           /\ Attached(transport_worker[c.id])
           /\ Attached(application_worker[c.id])

\* C17: a step of a delete changes nothing but the record of its own id
\* (the set of channels, the handles, the workers and the children of the
\* services stay as they are), and get_all returns the set of channels.
C17_DeleteRemovesOnlyRecord ==
    /\ [][\A p \in Procs :
            (calls[p].pc # "done" /\ calls[p].name = "delete")
            => /\ UNCHANGED <<redis_channels, channelVars, serviceVars>>
               /\ \A B \in IDs \ {calls[p].id} :
                     redis_properties'[B] = redis_properties[B]]_vars
    /\ [](\A p \in Procs :
            /\ (calls[p].pc = "done" /\ calls[p].name = "delete")
               => redis_properties[calls[p].id] = {}
            /\ (calls[p].pc = "done" /\ calls[p].name = "get_all")
               => /\ calls[p].result = "ok"
                  /\ calls[p].channels = redis_channels)

\* get_all has returned the id of a channel that was saved, started and
\* deleted: it has no record, its handles are set and its workers are
\* attached.
C17_Witness ==
    \E p \in Procs, id \in IDs :
        /\ calls[p].pc = "done"
        /\ calls[p].name = "get_all"
        /\ id \in calls[p].channels
        /\ redis_properties[id] = {}
        /\ Attached(transport_worker[id])
        /\ Attached(application_worker[id])

\* C20: when no call is running, every id that has a record is in the set
\* of channels; and no step takes an id out of the set.
C20_ChannelsSetHoldsEveryRecord ==
    /\ []((\A p \in Procs : calls[p].pc = "done")
          => \A id \in IDs : redis_properties[id] # {} => id \in redis_channels)
    /\ [][redis_channels \subseteq redis_channels']_vars

\* After an update that has saved a channel and a delete of the other
\* channel, both ids are in the set of channels and one has a record.
C20_Witness ==
    \E p \in Procs, A \in IDs, B \in IDs :
        /\ calls[p].pc = "done"
        /\ calls[p].name = "delete"
        /\ calls[p].id = B
        /\ {A, B} \subseteq redis_channels
        /\ redis_properties[B] = {}
        /\ redis_properties[A] # {}
        /\ Get(Persisted(A), "mo_url") = Str("http://y")

\* The handles of the channel when a call has failed at pc: those the
\* steps before it have cleared or set.
HandlesAsLeftAt(c) ==
    LET tw == transport_worker[c.id]
        aw == application_worker[c.id]
    IN CASE c.at \in {"update_restart", "stop_application",
                      "stop_application_done"} ->
              tw = c.pre.transport_worker /\ aw = c.pre.application_worker
         [] c.at \in {"stop_transport", "stop_transport_done"} ->
              tw = c.pre.transport_worker /\ aw = NoWorker
         [] c.at = "start_transport" ->
              tw = NoWorker /\ aw = NoWorker
         [] c.at = "start_application" ->
              /\ tw \notin {NoWorker, c.pre.transport_worker}
              /\ Attached(tw)
              /\ aw = NoWorker
         [] OTHER -> FALSE

\* C15: when an update with a config has failed after its save, the
\* record holds the merged properties, the call has the error as its
\* result, and the handles are those cleared or set before the failure;
\* an update with a config that returns without error has both workers
\* attached.
C15_FailedUpdateKeepsRecord ==
    \A p \in Procs :
        LET c == calls[p]
        IN (c.pc = "done" /\ c.name = "update" /\ Restarts(c))
           => IF c.result = "ok"
              THEN /\ Attached(transport_worker[c.id])
                   /\ Attached(application_worker[c.id])
              ELSE /\ c.result \in {"AttributeError", "StopServiceError",
                                     "InvalidChannelType", "KeyError",
                                     "RuntimeError"}
                   /\ PropertiesPersisted(c.id)
                   /\ \A k \in DOMAIN c.properties :
                         Persisted(c.id)[k] = c.properties[k]
                   /\ HandlesAsLeftAt(c)

\* An update with a new config has failed when the transport worker was
\* disowned, after the application worker was stopped: the record has the
\* new config, the application handle is cleared and the transport handle
\* is still set.
C15_Witness ==
    \E p \in Procs :
        LET c == calls[p]
        IN /\ c.pc = "done"
           /\ c.name = "update"
           /\ c.result = "StopServiceError"
           /\ c.at = "stop_transport_done"
           /\ c.pre.running
           /\ Get(Persisted(c.id), "config") = ConfigB
           /\ application_worker[c.id] = NoWorker
           /\ transport_worker[c.id] = c.pre.transport_worker

\* C16: a stop fails only with the error of a detach that failed; then
\* the handle of the worker whose detach failed is still set and the
\* application handle is cleared when the application worker was detached
\* before. A stop that meets no failing detach, a later stop of a channel
\* whose stop has failed among them, returns without error with both
\* handles cleared.
C16_StopRetryCompletes ==
    \A p \in Procs :
        LET c == calls[p]
            tw == transport_worker[c.id]
            aw == application_worker[c.id]
        IN (c.pc = "done" /\ c.name = "stop")
           => /\ c.result \in {"ok", "StopServiceError"}
              /\ c.result = "ok" => tw = NoWorker /\ aw = NoWorker
              /\ (c.result = "StopServiceError"
                  /\ c.at = "stop_application_done")
                 => /\ aw = c.pre.application_worker /\ aw # NoWorker
                    /\ tw = c.pre.transport_worker
              /\ (c.result = "StopServiceError"
                  /\ c.at = "stop_transport_done")
                 => /\ aw = NoWorker
                    /\ tw = c.pre.transport_worker /\ tw # NoWorker

====
